---- MODULE Spec2Model ----
(***************************************************************************)
(* Verification model of the rift-rewind chapter pipeline.                 *)
(*                                                                         *)
(* The chapter job orchestrator (infra/src/fetch_quarter.py) is modelled   *)
(* as a set of concurrently running lambda invocations, each stepping      *)
(* through handler / process_fetch / process_fetch_all one external call   *)
(* (job store, object store, queue, upstream provider) at a time.          *)
(***************************************************************************)
EXTENDS Integers, Sequences, FiniteSets, TLC

VARIABLES
    job,            \* the job record in the job store (DDB item)
    index,          \* object store: per chapter, the index.json artifact
    s3Puts,         \* object store: match artifact key -> number of put_object calls
    processQueue,   \* process queue: chapter label -> messages enqueued, not consumed
    fetchQueue,     \* fetch queue: work items sent and not yet acknowledged
    run,            \* per lambda invocation: position and local variables
    delivered,      \* number of queue deliveries (fetch and process queue) so far
    budget,         \* number of queue deliveries explored
    calc            \* the library function under evaluation: its inputs and progress

vars == <<job, index, s3Puts, processQueue, fetchQueue, run, delivered, budget, calc>>

----------------------------------------------------------------------------
(* Bounds of the model *)

\* total number of queue deliveries explored
MaxDeliveries == 2

\* number of match identifiers the upstream provider lists for the player
MaxMatches == 5

\* concurrently running invocations of the fetch lambda, in the order in which
\* an idle one is picked for a delivery (they are interchangeable)
WorkerOrder == <<"w1", "w2">>

Workers == {WorkerOrder[i] : i \in 1..Len(WorkerOrder)}

----------------------------------------------------------------------------
(* Program constants and pure helpers *)

quarter_order == <<"Q1", "Q2", "Q3", "Q4">>

QLabels == {quarter_order[i] : i \in 1..4}

\* quarter_order.index(label), 1-based
quarter_index(label) == CHOOSE i \in 1..4 : quarter_order[i] = label

Status == {"pending", "fetching", "fetched", "ready", "error"}

MAX_MATCHES_PER_QUARTER == 50

\* PROCESS_QUEUE_URL is set in the deployed lambda
PROCESS_QUEUE_URL == TRUE

Min(a, b) == IF a < b THEN a ELSE b

\* Platform shards of the match identifiers the provider returns.
PlatformShards == <<"EUW1", "BR1">>

\* Segments s for which "_EU" + ..., "_NA" + ..., "_KR" + ... occurs in "_" + s
EU_Segs == {"EUW1", "EUN1"}
NA_Segs == {"NA1"}
KR_Segs == {"KR"}

\* A match identifier "<shard>_<n>"; pre holds extra leading segments that only
\* identifiers parsed back from object keys can have.
Mid(i) == [pre |-> <<>>, shard |-> PlatformShards[((i - 1) % Len(PlatformShards)) + 1], n |-> i]

\* get_all_ids_2025: the list of n identifiers the provider returns
AllIds(n) == [i \in 1..n |-> Mid(i)]

\* riot_id.split('#',1)[0] as its "_"-separated segments
GameNames == {<<"Player">>}

\* f"{s3_base}{label}/{game}_{mid}.json"
MatchKey(label, game, mid) ==
    [label |-> label, segs |-> game \o mid.pre \o <<mid.shard>>, n |-> mid.n, json |-> TRUE]

\* f"{s3_base}{label}/index.json"
IndexKey(label) == [label |-> label, segs |-> <<"index">>, n |-> 0, json |-> TRUE]

\* k.rsplit("/",1)[-1].split("_",1)[-1].removesuffix(".json")
ParseMid(k) ==
    LET rest == Tail(k.segs)
    IN  IF k = IndexKey(k.label)
        THEN [pre |-> <<"index">>, shard |-> "", n |-> 0]
        ELSE [pre |-> SubSeq(rest, 1, Len(rest) - 1), shard |-> rest[Len(rest)], n |-> k.n]

\* "_XX" in k, for the segment set P of the segments that start with XX
HasSeg(k, P) == \E i \in 2..Len(k.segs) : k.segs[i] \in P

\* k.endswith(".json") and "_EU" in k or "_NA" in k or "_KR" in k
Recognised(k) == (k.json /\ HasSeg(k, EU_Segs)) \/ HasSeg(k, NA_Segs) \/ HasSeg(k, KR_Segs)

\* existing_ids of process_fetch
ExistingIds(existing_keys) == {ParseMid(k) : k \in {x \in existing_keys : Recognised(x)}}

\* missing = [mid for mid in match_ids_for_quarter if mid not in existing_ids]
SeqFilterOut(s, S) ==
    LET F[i \in 0..Len(s)] ==
            IF i = 0 THEN <<>>
            ELSE IF s[i] \in S THEN F[i - 1] ELSE Append(F[i - 1], s[i])
    IN  F[Len(s)]

Missing(match_ids, existing_keys) == SeqFilterOut(match_ids, ExistingIds(existing_keys))

Range(s) == {s[i] : i \in 1..Len(s)}

----------------------------------------------------------------------------
(* common.divide_matches_into_quarters *)

DivChunk(total, K) == Min(total \div 4, K)

DivRemainder(total, K) == IF total < K * 4 THEN Min(total % 4, K * 4 - total) ELSE 0

\* size of quarter i (0-based, as enumerate gives it)
DivSize(total, K, i) == Min(DivChunk(total, K) + (IF i < DivRemainder(total, K) THEN 1 ELSE 0), K)

\* start_idx before quarter i (0-based)
DivStart(total, K, i) ==
    LET S[j \in 0..4] == IF j = 0 THEN 0 ELSE Min(S[j - 1] + DivSize(total, K, j - 1), total)
    IN  S[i]

divide_matches_into_quarters(all_match_ids, max_per_quarter) ==
    LET total == Len(all_match_ids)
    IN  [q \in QLabels |->
            IF total = 0 THEN <<>>
            ELSE SubSeq(all_match_ids,
                        DivStart(total, max_per_quarter, quarter_index(q) - 1) + 1,
                        DivStart(total, max_per_quarter, quarter_index(q)))]

NoQuarterMatches == [q \in QLabels |-> <<>>]

----------------------------------------------------------------------------
(* Index construction of process_fetch *)

Item(m, k) == [matchId |-> m, s3Key |-> k]

MatchIds(items) == {items[i].matchId : i \in 1..Len(items)}

\* for m, k in results.items(): if m not in old_ids: merged_items.append(...)
AppendResults(merged, old_ids, label, game, results) ==
    LET F[i \in 0..Len(results)] ==
            IF i = 0 THEN merged
            ELSE IF results[i] \in old_ids THEN F[i - 1]
                 ELSE Append(F[i - 1], Item(results[i], MatchKey(label, game, results[i])))
    IN  F[Len(results)]

\* for k in existing_keys: if k.endswith(".json") and "/index.json" not in k ...
AppendExisting(merged, label, keys) ==
    LET F[i \in 0..Len(keys)] ==
            IF i = 0 THEN merged
            ELSE IF keys[i].json /\ keys[i] # IndexKey(label)
                    /\ ParseMid(keys[i]) \notin MatchIds(F[i - 1])
                 THEN Append(F[i - 1], Item(ParseMid(keys[i]), keys[i]))
                 ELSE F[i - 1]
    IN  F[Len(keys)]

\* merged_items of process_fetch: old is the index read (empty when absent),
\* results the fetched identifiers in completion order, keys the listing in the
\* order the set existing_keys is iterated
MergeIndex(old, label, game, results, keys) ==
    AppendExisting(AppendResults(old, MatchIds(old), label, game, results), label, keys)

IndexDoc(items) == [count |-> Len(items), items |-> items]

NoIndex == [count |-> -1, items |-> <<>>]

\* every iteration order of a set
Orderings(S) == {s \in [1..Cardinality(S) -> S] : \A i, j \in 1..Cardinality(S) : s[i] = s[j] => i = j}

----------------------------------------------------------------------------
(* Work items, job record, invocation state *)

\* body of a fetch-queue message: a chapter fetch, or the discover_and_divide task
QuarterMsg(q, force) == [task |-> "quarter", quarter |-> q, force |-> force]

DiscoverMsg(force) == [task |-> "discover_and_divide", quarter |-> "", force |-> force]

Msgs == {QuarterMsg(q, f) : q \in QLabels, f \in BOOLEAN} \cup {DiscoverMsg(FALSE)}

NoMsg == [task |-> "", quarter |-> "", force |-> FALSE]

\* item written by api.create_job; quarterMatches is absent until the division is stored
NewJob(game) ==
    [exists |-> TRUE, status |-> "queued", quarters |-> [q \in QLabels |-> "pending"],
     quarterMatches |-> NoQuarterMatches, game |-> game]

NoJob == [exists |-> FALSE, status |-> "", quarters |-> [q \in QLabels |-> "pending"],
          quarterMatches |-> NoQuarterMatches, game |-> <<>>]

NoMid == [pre |-> <<>>, shard |-> "", n |-> 0]

\* local variables of an invocation; puuidCalled and fetchCalls record the upstream
\* calls the run has issued, fetchOk the match fetches that returned data, idx0 the
\* index items persisted when the run started
IdleRun ==
    [pc |-> "idle", msg |-> NoMsg, qmap |-> [q \in QLabels |-> "pending"], qm |-> <<>>,
     game |-> <<>>, why |-> "", cached |-> FALSE, existing |-> {}, pending |-> {},
     cur |-> NoMid, results |-> <<>>, old |-> <<>>, total |-> 0,
     puuidCalled |-> FALSE, fetchCalls |-> {}, fetchOk |-> {}, idx0 |-> {}]

\* counts of identifiers get_all_ids_2025 may return
MatchCounts == {0, MaxMatches}

\* the gate with an off-by-one range: the quarter just before is not looked at
CanProcess_OffByOne(qmap, label) ==
    \A i \in 1..(quarter_index(label) - 2) : qmap[quarter_order[i]] \in {"fetched", "ready"}

\* handler: all previous quarters are "fetched" or "ready"
CanProcess(qmap, label) ==
    \A i \in 1..(quarter_index(label) - 1) : qmap[quarter_order[i]] \in {"fetched", "ready"}

\* s3_exists / s3_list_prefix
S3MatchKeys == DOMAIN s3Puts

\* an existence test that answers yes for every key
s3_exists_index_Always(label) == TRUE

s3_exists_index(label) == index[label] # NoIndex

s3_list_prefix(label) ==
    {k \in S3MatchKeys : k.label = label} \cup (IF s3_exists_index(label) THEN {IndexKey(label)} ELSE {})

\* put_object on a match artifact key
S3Put(k) == IF k \in DOMAIN s3Puts THEN [s3Puts EXCEPT ![k] = @ + 1] ELSE s3Puts @@ (k :> 1)

\* SQS.send_message to the process queue, guarded by PROCESS_QUEUE_URL
SendProcess(label) ==
    IF PROCESS_QUEUE_URL THEN [processQueue EXCEPT ![label] = @ + 1] ELSE processQueue

\* `break` in place of `continue`: a fetch without data ends the loop
SkipNoData_Break(rest) == {}

\* `if data is None: continue`: the futures still to be handled after a fetch
\* that returned no data
SkipNoData(rest) == rest

\* position after one future of the pool has been handled
AfterFuture(pending) == IF pending = {} THEN "index_read" ELSE "fetch"

\* no library function is under evaluation
NoCalc == [fn |-> "none"]

InitStores ==
    /\ calc = NoCalc
    /\ job \in {NoJob}
               \cup {NewJob(g) : g \in GameNames}
               \cup {[NewJob(g) EXCEPT !.quarterMatches =
                        divide_matches_into_quarters(AllIds(MaxMatches), MAX_MATCHES_PER_QUARTER)]
                     : g \in GameNames}
    /\ index = [q \in QLabels |-> NoIndex]
    /\ s3Puts = <<>>
    /\ processQueue = [q \in QLabels |-> 0]
    /\ fetchQueue = {}
    /\ run = [w \in Workers |-> IdleRun]
    /\ delivered = 0

Init == InitStores /\ budget = MaxDeliveries

----------------------------------------------------------------------------
(* The fetch queue delivers a work item to an idle invocation (at-least-once: a *)
(* new item, or one that is still unacknowledged)                               *)

FirstIdle(w) ==
    /\ run[w].pc = "idle"
    /\ \A i, j \in 1..Len(WorkerOrder) :
          (WorkerOrder[j] = w /\ i < j) => run[WorkerOrder[i]].pc # "idle"

Deliver(w, m) ==
    /\ FirstIdle(w)
    /\ delivered < budget
    /\ run' = [run EXCEPT ![w] = [IdleRun EXCEPT !.pc = "handler", !.msg = m]]
    /\ fetchQueue' = fetchQueue \cup {m}
    /\ delivered' = delivered + 1
    /\ UNCHANGED <<job, index, s3Puts, processQueue, budget, calc>>

(* handler: reads the job record and gates on the previous quarters *)

\* `if job_id and label: ... if item: ... if not can_process`
Gated(m) ==
    /\ m.task = "quarter"
    /\ job.exists
    /\ ~CanProcess(job.quarters, m.quarter)

\* `continue`: the record is skipped and stays in the queue
HandlerDefer(w) ==
    /\ run[w].pc = "handler"
    /\ Gated(run[w].msg)
    /\ run' = [run EXCEPT ![w] = IdleRun]
    /\ UNCHANGED <<job, index, s3Puts, processQueue, fetchQueue, delivered, budget, calc>>

\* process_fetch(msg)
HandlerProcess(w) ==
    /\ run[w].pc = "handler"
    /\ ~Gated(run[w].msg)
    /\ run' = [run EXCEPT ![w].pc = "pf_get"]
    /\ UNCHANGED <<job, index, s3Puts, processQueue, fetchQueue, delivered, budget, calc>>

(* process_fetch_all, up to its first job-store update:                       *)
(* puuid = get_puuid(regional, game, tag); all_match_ids = get_all_ids_2025(...) *)

ALL_GetIds(w) ==
    \E ok \in BOOLEAN, n \in MatchCounts :
       run' = [run EXCEPT ![w].pc = IF ~ok THEN "all_mark_error"
                                    ELSE IF n = 0 THEN "all_no_matches" ELSE "all_store",
                          ![w].game = job.game,
                          ![w].puuidCalled = TRUE,
                          ![w].total = IF ok THEN n ELSE 0]

(* process_fetch *)

\* process_fetch without `if not item: return`: a missing record is treated
\* as a record whose quarters are all pending
PF_GetItem_Unchecked(w) ==
    LET r == run[w]
        label == r.msg.quarter
    IN  /\ r.pc = "pf_get"
        /\ fetchQueue' = fetchQueue
        /\ IF r.msg.task = "discover_and_divide"
           THEN ALL_GetIds(w)
           ELSE run' = [run EXCEPT ![w].pc = "mark_fetching",
                                   ![w].qmap = [job.quarters EXCEPT ![label] = "fetching"],
                                   ![w].qm = job.quarterMatches[label],
                                   ![w].game = job.game,
                                   ![w].idx0 = Range(index[label].items)]
        /\ UNCHANGED <<job, index, s3Puts, processQueue, delivered, budget, calc>>

\* item = DDB.get_item(...); qmap[label] = "fetching"
PF_GetItem(w) ==
    LET r == run[w]
        label == r.msg.quarter
    IN  /\ r.pc = "pf_get"
        /\ IF ~job.exists
           THEN /\ run' = [run EXCEPT ![w] = IdleRun]
                /\ fetchQueue' = fetchQueue \ {r.msg}
           ELSE /\ fetchQueue' = fetchQueue
                /\ IF r.msg.task = "discover_and_divide"
                   THEN ALL_GetIds(w)
                   ELSE run' = [run EXCEPT ![w].pc = "mark_fetching",
                                           ![w].qmap = [job.quarters EXCEPT ![label] = "fetching"],
                                           ![w].qm = job.quarterMatches[label],
                                           ![w].game = job.game,
                                           ![w].idx0 = Range(index[label].items)]
        /\ UNCHANGED <<job, index, s3Puts, processQueue, delivered, budget, calc>>

\* update_job(job_id, quarters=qmap, status="running"); puuid = get_puuid(...);
\* then the quarterMatches lookup
PF_MarkFetching(w) ==
    LET r == run[w]
        label == r.msg.quarter
    IN  /\ r.pc = "mark_fetching"
        /\ job' = [job EXCEPT !.quarters = r.qmap, !.status = "running"]
        /\ \E ok \in BOOLEAN :
              IF ~ok
              THEN run' = [run EXCEPT ![w].pc = "mark_error", ![w].puuidCalled = TRUE,
                                      ![w].why = "no_puuid",
                                      ![w].qmap = [r.qmap EXCEPT ![label] = "error"]]
              ELSE IF r.qm = <<>>
              THEN run' = [run EXCEPT ![w].pc = "mark_error", ![w].puuidCalled = TRUE,
                                      ![w].why = "no_matches",
                                      ![w].qmap = [r.qmap EXCEPT ![label] = "error"]]
              ELSE run' = [run EXCEPT ![w].pc = "cache_check", ![w].puuidCalled = TRUE]
        /\ UNCHANGED <<index, s3Puts, processQueue, fetchQueue, delivered, budget, calc>>

\* update_job(job_id, quarters=qmap); return
PF_MarkError(w) ==
    LET r == run[w]
    IN  /\ r.pc = "mark_error"
        /\ job' = [job EXCEPT !.quarters = r.qmap]
        /\ run' = [run EXCEPT ![w] = IdleRun]
        /\ fetchQueue' = fetchQueue \ {r.msg}
        /\ UNCHANGED <<index, s3Puts, processQueue, delivered, budget, calc>>

\* if s3_exists(index_key) and not force: SQS.send_message(PROCESS_QUEUE_URL, ...);
\* qmap[label] = "fetched"  (cache hit, the update follows in PF_MarkFetched)
PF_CacheCheck(w) ==
    LET r == run[w]
        label == r.msg.quarter
    IN  /\ r.pc = "cache_check"
        /\ IF s3_exists_index(label) /\ ~r.msg.force
           THEN /\ processQueue' = SendProcess(label)
                /\ run' = [run EXCEPT ![w].pc = "mark_fetched", ![w].cached = TRUE,
                                      ![w].qmap = [r.qmap EXCEPT ![label] = "fetched"]]
           ELSE /\ processQueue' = processQueue
                /\ run' = [run EXCEPT ![w].pc = "list"]
        /\ UNCHANGED <<job, index, s3Puts, fetchQueue, delivered, budget, calc>>

\* existing_keys = set(s3_list_prefix(...)); missing; pool.submit for each missing id
PF_List(w) ==
    LET r == run[w]
        keys == s3_list_prefix(r.msg.quarter)
        todo == Range(Missing(r.qm, keys))
    IN  /\ r.pc = "list"
        /\ run' = [run EXCEPT ![w].pc = AfterFuture(todo), ![w].existing = keys,
                              ![w].pending = todo]
        /\ UNCHANGED <<job, index, s3Puts, processQueue, fetchQueue, delivered, budget, calc>>

\* one future completes (in any order): data = fut.result(); None is skipped;
\* otherwise `if not s3_exists(key)` decides on the write, and results[mid] = key
PF_Fetch(w, mid, ok) ==
    LET r == run[w]
        rest == r.pending \ {mid}
        key == MatchKey(r.msg.quarter, r.game, mid)
    IN  /\ r.pc = "fetch"
        /\ mid \in r.pending
        /\ IF ~ok
           THEN run' = [run EXCEPT ![w].pc = AfterFuture(SkipNoData(rest)),
                                   ![w].pending = SkipNoData(rest),
                                   ![w].fetchCalls = @ \cup {mid}]
           ELSE IF key \in S3MatchKeys
           THEN run' = [run EXCEPT ![w].pc = AfterFuture(rest), ![w].pending = rest,
                                   ![w].fetchCalls = @ \cup {mid},
                                   ![w].fetchOk = @ \cup {mid},
                                   ![w].results = Append(@, mid)]
           ELSE run' = [run EXCEPT ![w].pc = "key_write", ![w].cur = mid, ![w].pending = rest,
                                   ![w].fetchCalls = @ \cup {mid},
                                   ![w].fetchOk = @ \cup {mid}]
        /\ UNCHANGED <<job, index, s3Puts, processQueue, fetchQueue, delivered, budget, calc>>

\* s3_write_json(key, data); results[mid] = key
PF_KeyWrite(w) ==
    LET r == run[w]
        key == MatchKey(r.msg.quarter, r.game, r.cur)
    IN  /\ r.pc = "key_write"
        /\ s3Puts' = S3Put(key)
        /\ run' = [run EXCEPT ![w].pc = AfterFuture(r.pending), ![w].cur = NoMid,
                              ![w].results = Append(@, r.cur)]
        /\ UNCHANGED <<job, index, processQueue, fetchQueue, delivered, budget, calc>>

\* if s3_exists(index_key): old = s3_read_json(index_key); merged_items.extend(old["items"])
PF_IndexRead(w) ==
    LET r == run[w]
        label == r.msg.quarter
    IN  /\ r.pc = "index_read"
        /\ run' = [run EXCEPT ![w].pc = "index_write",
                              ![w].old = IF s3_exists_index(label) THEN index[label].items ELSE <<>>]
        /\ UNCHANGED <<job, index, s3Puts, processQueue, fetchQueue, delivered, budget, calc>>

\* the merge loops, then s3_write_json(index_key, {"count": ..., "items": merged_items});
\* SQS.send_message(PROCESS_QUEUE_URL, ...); qmap[label] = "fetched"
PF_IndexWrite(w) ==
    LET r == run[w]
        label == r.msg.quarter
    IN  /\ r.pc = "index_write"
        /\ \E keys \in Orderings(r.existing) :
              index' = [index EXCEPT ![label] =
                          IndexDoc(MergeIndex(r.old, label, r.game, r.results, keys))]
        /\ processQueue' = SendProcess(label)
        /\ run' = [run EXCEPT ![w].pc = "mark_fetched", ![w].existing = {}, ![w].results = <<>>,
                              ![w].old = <<>>,
                              ![w].qmap = [r.qmap EXCEPT ![label] = "fetched"]]
        /\ UNCHANGED <<job, s3Puts, fetchQueue, delivered, budget, calc>>

\* update_job(job_id, quarters=qmap); the handler returns
PF_MarkFetched(w) ==
    LET r == run[w]
    IN  /\ r.pc = "mark_fetched"
        /\ job' = [job EXCEPT !.quarters = r.qmap]
        /\ run' = [run EXCEPT ![w] = IdleRun]
        /\ fetchQueue' = fetchQueue \ {r.msg}
        /\ UNCHANGED <<index, s3Puts, processQueue, delivered, budget, calc>>

(* process_fetch_all (task discover_and_divide) *)

\* update_job(job_id, status="error"); return
ALL_MarkError(w) ==
    LET r == run[w]
    IN  /\ r.pc = "all_mark_error"
        /\ job' = [job EXCEPT !.status = "error"]
        /\ run' = [run EXCEPT ![w] = IdleRun]
        /\ fetchQueue' = fetchQueue \ {r.msg}
        /\ UNCHANGED <<index, s3Puts, processQueue, delivered, budget, calc>>

\* update_job(job_id, status="error", quarters={all "error"}); return
ALL_NoMatches(w) ==
    LET r == run[w]
    IN  /\ r.pc = "all_no_matches"
        /\ job' = [job EXCEPT !.status = "error", !.quarters = [q \in QLabels |-> "error"]]
        /\ run' = [run EXCEPT ![w] = IdleRun]
        /\ fetchQueue' = fetchQueue \ {r.msg}
        /\ UNCHANGED <<index, s3Puts, processQueue, delivered, budget, calc>>

\* quarters_map = divide_matches_into_quarters(...); update_job(job_id, quarterMatches=quarters_map)
ALL_Store(w) ==
    LET r == run[w]
    IN  /\ r.pc = "all_store"
        /\ job' = [job EXCEPT !.quarterMatches =
                      divide_matches_into_quarters(AllIds(r.total), MAX_MATCHES_PER_QUARTER)]
        /\ run' = [run EXCEPT ![w].pc = "all_enqueue"]
        /\ UNCHANGED <<index, s3Puts, processQueue, fetchQueue, delivered, budget, calc>>

\* if PROCESS_QUEUE_URL: SQS.send_message(QueueUrl=FETCH_QUEUE_URL, Q1 ...)
ALL_Enqueue(w) ==
    LET r == run[w]
    IN  /\ r.pc = "all_enqueue"
        /\ fetchQueue' = (fetchQueue \ {r.msg})
                            \cup (IF PROCESS_QUEUE_URL THEN {QuarterMsg("Q1", r.msg.force)} ELSE {})
        /\ run' = [run EXCEPT ![w] = IdleRun]
        /\ UNCHANGED <<job, index, s3Puts, processQueue, delivered, budget, calc>>

(* The downstream chapter processor: consumes a process-queue message and marks *)
(* a fetched chapter ready                                                      *)

ProcessQuarter(q) ==
    /\ processQueue[q] > 0
    /\ delivered < budget
    /\ delivered' = delivered + 1
    /\ processQueue' = [processQueue EXCEPT ![q] = @ - 1]
    /\ job' = IF job.quarters[q] = "fetched"
              THEN [job EXCEPT !.quarters = [@ EXCEPT ![q] = "ready"]]
              ELSE job
    /\ UNCHANGED <<index, s3Puts, fetchQueue, run, budget, calc>>

WorkerStep(w) ==
    \/ HandlerDefer(w)
    \/ HandlerProcess(w)
    \/ PF_GetItem(w)
    \/ PF_MarkFetching(w)
    \/ PF_MarkError(w)
    \/ PF_CacheCheck(w)
    \/ PF_List(w)
    \/ \E mid \in run[w].pending, ok \in BOOLEAN : PF_Fetch(w, mid, ok)
    \/ PF_KeyWrite(w)
    \/ PF_IndexRead(w)
    \/ PF_IndexWrite(w)
    \/ PF_MarkFetched(w)
    \/ ALL_MarkError(w)
    \/ ALL_NoMatches(w)
    \/ ALL_Store(w)
    \/ ALL_Enqueue(w)

Next ==
    \/ \E w \in Workers, m \in Msgs : Deliver(w, m)
    \/ \E w \in Workers : WorkerStep(w)
    \/ \E q \in QLabels : ProcessQuarter(q)

Spec == Init /\ [][Next]_vars

\* the same system explored one delivery deeper
InitDeep == InitStores /\ budget = MaxDeliveries + 1

SpecDeep == InitDeep /\ [][Next]_vars

----------------------------------------------------------------------------
(* Properties *)

Done == {"fetched", "ready"}

\* some chapter before `label` is neither fetched nor ready in the job record
EarlierNotDone(label) ==
    \E j \in 1..4 : j < quarter_index(label) /\ job.quarters[quarter_order[j]] \notin Done

\* invocation w takes a step from position pc
StepFrom(w, pc) == run[w].pc = pc /\ run'[w] # run[w]

\* the fetched identifiers in the order in which they were submitted to the pool
SubmissionOrder(match_ids, results) == SeqFilterOut(match_ids, Range(match_ids) \ Range(results))

C2_FetchingOnlyAfterEarlierDone ==
    [][\A w \in Workers :
          StepFrom(w, "mark_fetching") => ~EarlierNotDone(run[w].msg.quarter)]_vars

\* C3: once a chapter's status is error, no later step changes it.
C3_ErrorIsTerminal ==
    [][\A q \in QLabels : job.quarters[q] = "error" => job'.quarters[q] = "error"]_vars

\* C4: when get_puuid returns nothing while a work item is processed, the job
\* status becomes error and all four chapters are marked error.
C4_NoPuuidFailsWholeJob ==
    [][\A w \in Workers :
          (\/ StepFrom(w, "mark_error") /\ run[w].why = "no_puuid"
           \/ StepFrom(w, "all_mark_error"))
          => (/\ job'.status = "error"
              /\ \A q \in QLabels : job'.quarters[q] = "error")]_vars

\* C5: a run that finds the chapter index present with force unset has issued no
\* upstream call at all.
C5_CacheHitIssuesNoUpstreamCall ==
    \A w \in Workers : run[w].cached => (~run[w].puuidCalled /\ run[w].fetchCalls = {})

\* C6: no upstream fetch is issued for an assigned identifier whose artifact is
\* already stored under the chapter's prefix.
C6_StoredArtifactNotRefetched ==
    \A w \in Workers :
       \A mid \in run[w].fetchCalls :
          MatchKey(run[w].msg.quarter, run[w].game, mid) \notin run[w].existing

\* C7: no artifact key receives a second write.
C7_ArtifactWrittenOnce == \A k \in DOMAIN s3Puts : s3Puts[k] <= 1

\* C8: every item of the index persisted when a process_fetch run starts is
\* still in the persisted index when the run ends, and the index exists when
\* the run sets the chapter to fetched.
C8_IndexMergedAdditively ==
    [][\A w \in Workers :
          LET r == run[w]
              label == r.msg.quarter
          IN  /\ (r.pc \in {"mark_fetched", "mark_error"} /\ run'[w].pc = "idle")
                 => r.idx0 \subseteq Range(index'[label].items)
              /\ StepFrom(w, "mark_fetched") => index[label] # NoIndex]_vars

\* C9: the index a run writes is the one obtained with the fetch results taken
\* in submission order, whatever the order in which the fetches completed.
C9_IndexIndependentOfCompletionOrder ==
    [][\A w \in Workers :
          LET r == run[w]
              label == r.msg.quarter
          IN  StepFrom(w, "index_write")
              => \E keys \in Orderings(r.existing) :
                    index'[label] = IndexDoc(MergeIndex(r.old, label, r.game,
                                                        SubmissionOrder(r.qm, r.results), keys))]_vars

IndexEntries(q, mid) ==
    Cardinality({i \in 1..Len(index[q].items) : index[q].items[i].matchId = mid})

\* C11: once two or more deliveries of a chapter's work item have completed (each
\* has sent its process message and no invocation is running), the chapter index
\* lists every assigned identifier that has a stored artifact exactly once, its
\* count equals its number of items, and the chapter's status is fetched.
C11_ConcurrentDeliveriesKeepIndexExact ==
    \A q \in QLabels :
       ((\A w \in Workers : run[w].pc = "idle") /\ processQueue[q] >= 2)
       => /\ index[q].count = Len(index[q].items)
          /\ \A mid \in Range(job.quarterMatches[q]) :
                MatchKey(q, job.game, mid) \in DOMAIN s3Puts => IndexEntries(q, mid) = 1
          /\ job.quarters[q] = "fetched"

----------------------------------------------------------------------------
(* common.riot_get and common.fetch_match *)

\* the orchestrator at rest while a library function is evaluated
Quiescent ==
    /\ job = NoJob
    /\ index = [q \in QLabels |-> NoIndex]
    /\ s3Puts = <<>>
    /\ processQueue = [q \in QLabels |-> 0]
    /\ fetchQueue = {}
    /\ run = [w \in Workers |-> IdleRun]
    /\ delivered = 0
    /\ budget = 0

orch == <<job, index, s3Puts, processQueue, fetchQueue, run, delivered, budget>>

\* max_retries=6
max_retries == 6

\* backoff = 1.0
InitialBackoff == 1

\* min(16.0, ...)
BackoffCap == 16

\* no Retry-After header in the response
NoHeader == -1

\* responses of the provider: status code and Retry-After header (seconds)
Responses ==
    {[status |-> st, retry_after |-> NoHeader] : st \in {200, 404, 500, 503}}
    \cup {[status |-> 429, retry_after |-> ra] : ra \in {NoHeader, 1, 30}}

\* requests.Response.ok
ok(r) == r.status < 400

\* the backoff doubled without the cap
NextBackoff_Uncapped(backoff) == backoff * 2

\* backoff = min(16.0, backoff*2)
NextBackoff(backoff) == Min(BackoffCap, backoff * 2)

\* wait = float(r.headers.get("Retry-After", backoff))
RetryAfterWait(r, backoff) == IF r.retry_after = NoHeader THEN backoff ELSE r.retry_after

\* fetch_match: r.json() if r.ok else None
fetch_match(r) == IF ok(r) THEN "data" ELSE "None"

InitRiot ==
    /\ Quiescent
    /\ calc = [fn |-> "riot_get", attempts |-> 0, backoff |-> InitialBackoff,
               seen |-> <<>>, sleeps |-> <<>>, outcome |-> "running", result |-> "None"]

\* one iteration of `for _ in range(max_retries)`: a request and its response r
RG_Request(r) ==
    /\ calc.fn = "riot_get"
    /\ calc.outcome = "running"
    /\ calc.attempts < max_retries
    /\ calc' = IF r.status = 429
               THEN [calc EXCEPT !.attempts = @ + 1, !.seen = Append(@, r),
                                 !.sleeps = Append(@, RetryAfterWait(r, calc.backoff)),
                                 !.backoff = NextBackoff(@)]
               ELSE IF 500 <= r.status /\ r.status < 600
               THEN [calc EXCEPT !.attempts = @ + 1, !.seen = Append(@, r),
                                 !.sleeps = Append(@, calc.backoff),
                                 !.backoff = NextBackoff(@)]
               ELSE [calc EXCEPT !.attempts = @ + 1, !.seen = Append(@, r),
                                 !.outcome = "returned", !.result = fetch_match(r)]
    /\ UNCHANGED orch

\* the loop is exhausted: `return r` with the last response
RG_Exhausted ==
    /\ calc.fn = "riot_get"
    /\ calc.outcome = "running"
    /\ calc.attempts = max_retries
    /\ calc' = IF calc.seen = <<>>
               THEN [calc EXCEPT !.outcome = "raised"]
               ELSE [calc EXCEPT !.outcome = "returned",
                                 !.result = fetch_match(calc.seen[Len(calc.seen)])]
    /\ UNCHANGED orch

NextRiot ==
    \/ \E r \in Responses : RG_Request(r)
    \/ RG_Exhausted

SpecRiot == InitRiot /\ [][NextRiot]_vars

\* 2^k
Pow2(k) == LET P[i \in 0..k] == IF i = 0 THEN 1 ELSE 2 * P[i - 1] IN P[k]

\* the response is a rate-limit or server-error one
Retryable(r) == r.status = 429 \/ (500 <= r.status /\ r.status < 600)

----------------------------------------------------------------------------
(* The partitioners: aggregate_matches.split_into_quarters (and the cap of   *)
(* aggregate_matches.main), process_local_matches.divide_into_quarters,      *)
(* aggregate_rift_rewind.split_into_chapters and                             *)
(* common.divide_matches_into_quarters                                       *)

\* longest input list of games
MaxGames == 10

\* longest input list of which every ordering of timestamps is tried
MaxUnsorted == 3

\* a game without a timestamp field
NoTimestamp == -1

\* --max-per-quarter values tried besides the orchestrator's default
CapValues == {1, 2, 3}

\* a game: its position in the input list and its timestamp field
Game(i, t) == [id |-> i, ts |-> t]

\* get_match_timestamp / get_timestamp: 0 when the field is missing
get_match_timestamp(match) == IF match.ts = NoTimestamp THEN 0 ELSE match.ts

\* number of elements of t whose key is at most k
CountLeq(t, k) == Cardinality({j \in 1..Len(t) : get_match_timestamp(t[j]) <= k})

\* sorted(matches, key=get_match_timestamp): stable, ascending
sorted_by_timestamp(matches) ==
    LET F[i \in 0..Len(matches)] ==
            IF i = 0 THEN <<>>
            ELSE LET t == F[i - 1]
                     p == CountLeq(t, get_match_timestamp(matches[i]))
                 IN  SubSeq(t, 1, p) \o <<matches[i]>> \o SubSeq(t, p + 1, Len(t))
    IN  F[Len(matches)]

\* the python slice s[a:b] for 0 <= a
Slice(s, a, b) == SubSeq(s, a + 1, Min(b, Len(s)))

\* size = quarter_size + (1 if i < remainder else 0), i 0-based
SplitSize(total, i) == (total \div 4) + (IF i < total % 4 THEN 1 ELSE 0)

\* start_idx before quarter i (0-based)
SplitStart(total, i) ==
    LET S[j \in 0..4] == IF j = 0 THEN 0 ELSE S[j - 1] + SplitSize(total, j - 1)
    IN  S[i]

\* aggregate_matches.split_into_quarters
split_into_quarters(matches) ==
    LET sorted_matches == sorted_by_timestamp(matches)
        total == Len(sorted_matches)
    IN  [i \in 1..4 |-> Slice(sorted_matches, SplitStart(total, i - 1), SplitStart(total, i))]

\* aggregate_matches.main: quarters[quarter][:max_per_quarter]
limit_per_quarter(quarters, max_per_quarter) ==
    [i \in 1..4 |-> IF Len(quarters[i]) > max_per_quarter
                    THEN Slice(quarters[i], 0, max_per_quarter)
                    ELSE quarters[i]]

\* extra = 1 if i <= remainder else 0, i in 1..4
DivideExtra(total, i) == IF i <= total % 4 THEN 1 ELSE 0

\* start_idx before quarter i (1-based)
DivideStart(total, i) ==
    LET S[j \in 1..5] == IF j = 1 THEN 0 ELSE S[j - 1] + (total \div 4) + DivideExtra(total, j - 1)
    IN  S[i]

\* process_local_matches.divide_into_quarters
divide_into_quarters(matches) ==
    [i \in 1..4 |-> Slice(matches, DivideStart(Len(matches), i), DivideStart(Len(matches), i + 1))]

\* q = max(1, n // 4)
ChapterStep(n) == IF n \div 4 > 1 THEN n \div 4 ELSE 1

\* aggregate_rift_rewind.split_into_chapters: the four (start, end) pairs
split_into_chapters(matches_sorted) ==
    LET n == Len(matches_sorted)
        q == ChapterStep(n)
    IN  IF n = 0 THEN <<<<0, 0>>, <<0, 0>>, <<0, 0>>, <<0, 0>>>>
        ELSE << <<0, Min(n, q)>>, <<Min(n, q), Min(n, 2 * q)>>,
                <<Min(n, 2 * q), Min(n, 3 * q)>>, <<Min(n, 3 * q), n>> >>

\* the games of the four ranges
ChaptersOf(matches_sorted, ranges) ==
    [i \in 1..4 |-> Slice(matches_sorted, ranges[i][1], ranges[i][2])]

\* the quarters of common.divide_matches_into_quarters as a list Q1..Q4
QuartersList(quarters) == [i \in 1..4 |-> quarters[quarter_order[i]]]

\* input lists: every list of at most MaxUnsorted games, and longer lists that
\* are oldest first, newest first, or oldest first with the last timestamp missing
GameLists ==
    UNION {{[i \in 1..n |-> Game(i, ts[i])] : ts \in [1..n -> {NoTimestamp, 1, 2}]}
           : n \in 0..MaxUnsorted}
    \cup {[i \in 1..n |-> Game(i, i)] : n \in (MaxUnsorted + 1)..MaxGames}
    \cup {[i \in 1..n |-> Game(i, n + 1 - i)] : n \in (MaxUnsorted + 1)..MaxGames}
    \cup {[i \in 1..n |-> Game(i, IF i = n THEN NoTimestamp ELSE i)]
          : n \in (MaxUnsorted + 1)..MaxGames}

NoChapters == <<>>

InitPartition ==
    /\ Quiescent
    /\ \E g \in GameLists :
          calc = [fn |-> "partition", games |-> g, by |-> "none", K |-> 0,
                  chapters |-> NoChapters]

\* the partition of calc.games by partitioner `by` (with cap K) is computed
Partitioned(by, K, chapters) ==
    /\ calc.fn = "partition"
    /\ calc.by = "none"
    /\ calc' = [calc EXCEPT !.by = by, !.K = K, !.chapters = chapters]
    /\ UNCHANGED orch

SplitIntoQuarters == Partitioned("split_into_quarters", 0, split_into_quarters(calc.games))

\* aggregate_matches.main: split, then limit each quarter
AggregateMain(K) ==
    Partitioned("aggregate_matches.main", K, limit_per_quarter(split_into_quarters(calc.games), K))

\* process_local_matches.main: sort_matches_by_date, then divide_into_quarters
DivideIntoQuarters ==
    Partitioned("divide_into_quarters", 0, divide_into_quarters(sorted_by_timestamp(calc.games)))

SplitIntoChapters ==
    Partitioned("split_into_chapters", 0,
                LET s == sorted_by_timestamp(calc.games) IN ChaptersOf(s, split_into_chapters(s)))

\* process_fetch_all: divide_matches_into_quarters(all_match_ids, max_per_quarter=K)
DivideMatchesIntoQuarters(K) ==
    Partitioned("divide_matches_into_quarters", K,
                QuartersList(divide_matches_into_quarters(calc.games, K)))

NextPartition ==
    \/ SplitIntoQuarters
    \/ \E K \in CapValues : AggregateMain(K)
    \/ DivideIntoQuarters
    \/ SplitIntoChapters
    \/ \E K \in CapValues \cup {MAX_MATCHES_PER_QUARTER} : DivideMatchesIntoQuarters(K)

SpecPartition == InitPartition /\ [][NextPartition]_vars

\* the chapters laid end to end
Flatten(chapters) == chapters[1] \o chapters[2] \o chapters[3] \o chapters[4]

\* floor(n/4)+1 for the first n mod 4 chapters, floor(n/4) for the rest
BalancedSize(n, i) == (n \div 4) + (IF i <= n % 4 THEN 1 ELSE 0)

\* C13: every partitioner of the repository, run without a binding cap, yields
\* exactly 4 chapters whose sizes sum to n and differ pairwise by at most 1, the
\* first n mod 4 chapters having floor(n/4)+1 games and the rest floor(n/4).
C13_PartitionSizesBalanced ==
    (/\ calc.fn = "partition"
     /\ \/ calc.by \in {"split_into_quarters", "divide_into_quarters", "split_into_chapters"}
        \/ calc.by = "divide_matches_into_quarters" /\ calc.K = MAX_MATCHES_PER_QUARTER)
    => LET n == Len(calc.games)
       IN  /\ Len(calc.chapters) = 4
           /\ Len(Flatten(calc.chapters)) = n
           /\ \A i, j \in 1..4 : Len(calc.chapters[i]) - Len(calc.chapters[j]) <= 1
           /\ \A i \in 1..4 : Len(calc.chapters[i]) = BalancedSize(n, i)

\* C14: the four chapters are pairwise disjoint, together contain exactly the
\* input games, and are in chronological order (a missing timestamp counting as
\* 0): no game of a later chapter is older than a game of an earlier one, also
\* for an input list that is not sorted.
C14_PartitionChronological ==
    (/\ calc.fn = "partition"
     /\ \/ calc.by \in {"split_into_quarters", "divide_into_quarters"}
        \/ calc.by = "divide_matches_into_quarters" /\ calc.K = MAX_MATCHES_PER_QUARTER)
    => LET all == Flatten(calc.chapters)
       IN  /\ Len(all) = Len(calc.games)
           /\ Range(all) = Range(calc.games)
           /\ \A i, j \in 1..4 :
                 i < j => \A a \in 1..Len(calc.chapters[i]), b \in 1..Len(calc.chapters[j]) :
                             get_match_timestamp(calc.chapters[i][a])
                                <= get_match_timestamp(calc.chapters[j][b])

\* the uncapped chapters of the base/remainder partition of a list
BalancedChapters(s) ==
    [i \in 1..4 |-> Slice(s, SplitStart(Len(s), i - 1), SplitStart(Len(s), i))]

\* C15: with a per-chapter cap K, each chapter equals the first min(K, size)
\* games of the corresponding chapter of the uncapped base/remainder partition.
C15_CapAppliedAfterPartition ==
    (/\ calc.fn = "partition"
     /\ calc.by \in {"aggregate_matches.main", "divide_matches_into_quarters"})
    => LET s == IF calc.by = "aggregate_matches.main"
                THEN sorted_by_timestamp(calc.games) ELSE calc.games
           uncapped == BalancedChapters(s)
       IN  \A i \in 1..4 :
              /\ Len(calc.chapters[i]) <= calc.K
              /\ calc.chapters[i] = Slice(uncapped[i], 0, Min(calc.K, Len(uncapped[i])))

----------------------------------------------------------------------------
(* Binary floating point (python float), round to nearest even, with a       *)
(* mantissa of FloatBits bits; a value is m * 2^e                            *)

\* mantissa width of the modelled floats
FloatBits == 5

Abs(x) == IF x < 0 THEN -x ELSE x

Sign(x) == IF x < 0 THEN -1 ELSE IF x > 0 THEN 1 ELSE 0

\* number of binary digits of n >= 0
BitLen(n) == CHOOSE k \in 0..30 : n < Pow2(k) /\ (k = 0 \/ Pow2(k - 1) <= n)

\* canonical form: odd mantissa, or zero
Canon(m, e) ==
    IF m = 0 THEN [m |-> 0, e |-> 0]
    ELSE LET t == CHOOSE k \in 0..30 : m % Pow2(k) = 0 /\ m % Pow2(k + 1) # 0
         IN  [m |-> m \div Pow2(t) + (IF m < 0 /\ m % Pow2(t) # 0 THEN 1 ELSE 0), e |-> e + t]

\* the float nearest to M * 2^E, ties to even
Round(M, E) ==
    LET A == Abs(M)
        L == BitLen(A)
    IN  IF L <= FloatBits THEN Canon(M, E)
        ELSE LET k == L - FloatBits
                 q == A \div Pow2(k)
                 rem == A % Pow2(k)
                 half == Pow2(k - 1)
                 up == IF rem > half \/ (rem = half /\ q % 2 = 1) THEN 1 ELSE 0
             IN  Canon(Sign(M) * (q + up), E + k)

\* float(n) for an int n
FromInt(n) == Round(n, 0)

FZero == FromInt(0)

FOne == FromInt(1)

\* a + b
FAdd(a, b) ==
    LET e == Min(a.e, b.e)
    IN  Round(a.m * Pow2(a.e - e) + b.m * Pow2(b.e - e), e)

\* a - b
FSub(a, b) == FAdd(a, [m |-> -b.m, e |-> b.e])

\* a * b
FMul(a, b) == Round(a.m * b.m, a.e + b.e)

\* a / b for b # 0: the quotient with a sticky bit, rounded
FDiv(a, b) ==
    LET s == 2 * FloatBits + 2
        N == Abs(a.m) * Pow2(s)
        q == N \div Abs(b.m)
        sticky == IF N % Abs(b.m) # 0 THEN 1 ELSE 0
    IN  Round(Sign(a.m) * Sign(b.m) * (2 * q + sticky), a.e - b.e - s - 1)

\* math.sqrt(a) for a >= 0
FSqrt(a) ==
    IF a.m = 0 THEN FZero
    ELSE LET t == 2 * FloatBits + 2 + ((a.e - (2 * FloatBits + 2)) % 2)
             M == a.m * Pow2(t)
             r == CHOOSE x \in 0..Pow2(2 * FloatBits + 2) : x * x <= M /\ M < (x + 1) * (x + 1)
             sticky == IF r * r # M THEN 1 ELSE 0
         IN  Round(2 * r + sticky, ((a.e - t) \div 2) - 1)

\* sum(xs), left to right from the int 0
FSum(xs) ==
    LET S[i \in 0..Len(xs)] == IF i = 0 THEN FZero ELSE FAdd(S[i - 1], xs[i])
    IN  S[Len(xs)]

----------------------------------------------------------------------------
(* stats_inference._z / zscore_rows and aggregate_rift_rewind.zscore_series, *)
(* for one dimension of the cohort                                           *)

\* largest cohort of games
MaxCohort == 5

\* largest score of a game in the dimension
MaxScore == 15

\* (x - mu) / sd for every x, with mu and sd computed as both functions do
ZScores(xs) ==
    LET n == FromInt(Len(xs))
        mu == FDiv(FSum(xs), n)
        var == FDiv(FSum([i \in 1..Len(xs) |-> FMul(FSub(xs[i], mu), FSub(xs[i], mu))]), n)
        root == FSqrt(var)
        sd == IF root = FZero THEN FOne ELSE root
    IN  [i \in 1..Len(xs) |-> FDiv(FSub(xs[i], mu), sd)]

\* stats_inference._z
_z(xs) == IF Len(xs) = 0 THEN <<>> ELSE ZScores(xs)

\* stats_inference.zscore_rows, the column of one key
zscore_rows(rows) == IF rows = <<>> THEN <<>> ELSE [i \in 1..Len(rows) |-> _z(rows)[i]]

\* aggregate_rift_rewind.zscore_series
zscore_series(xs) ==
    IF xs = <<>> THEN <<>>
    ELSE IF Len(xs) = 1 THEN <<FZero>>
    ELSE ZScores(xs)

\* cohorts: every game with the same score, and every pair of scores
Cohorts ==
    {[i \in 1..n |-> FromInt(x)] : n \in 0..MaxCohort, x \in 0..MaxScore}
    \cup {<<FromInt(x), FromInt(y)>> : x, y \in 0..MaxScore}

InitNormalize ==
    /\ Quiescent
    /\ \E xs \in Cohorts : calc = [fn |-> "normalize", xs |-> xs, by |-> "none", out |-> <<>>]

ZscoreRows ==
    /\ calc.fn = "normalize"
    /\ calc.by = "none"
    /\ calc' = [calc EXCEPT !.by = "zscore_rows", !.out = zscore_rows(calc.xs)]
    /\ UNCHANGED orch

ZscoreSeries ==
    /\ calc.fn = "normalize"
    /\ calc.by = "none"
    /\ calc' = [calc EXCEPT !.by = "zscore_series", !.out = zscore_series(calc.xs)]
    /\ UNCHANGED orch

NextNormalize == ZscoreRows \/ ZscoreSeries

SpecNormalize == InitNormalize /\ [][NextNormalize]_vars

\* C16: normalizing a cohort in which every game has the same score yields 0
\* for every game; an empty cohort yields an empty list; the output has the
\* length of the input.
C16_IdenticalScoresNormalizeToZero ==
    (calc.fn = "normalize" /\ calc.by # "none")
    => /\ Len(calc.out) = Len(calc.xs)
       /\ (\A i, j \in 1..Len(calc.xs) : calc.xs[i] = calc.xs[j])
          => \A i \in 1..Len(calc.out) : calc.out[i] = FZero

----------------------------------------------------------------------------
(* stats_inference.universalism_bonus and                                    *)
(* aggregate_rift_rewind.add_universalism_diversity                          *)

\* largest cohort whose champions and lanes are enumerated
MaxPicks == 3

Champions == {"1", "2", "3"}

Lanes == {"TOP", "MIDDLE", "JUNGLE"}

\* max(1, n)
Max1(n) == IF n < 1 THEN 1 ELSE n

\* len(set(...)) of one field of the cohort
Distinct(picks, field) == Cardinality({picks[i][field] : i \in 1..Len(picks)})

\* 0.5 * cd + 0.5 * ld
DiversityOf(picks) ==
    LET half == FDiv(FOne, FromInt(2))
        cd == FDiv(FromInt(Distinct(picks, "champ")), FromInt(Max1(Len(picks))))
        ld == FDiv(FromInt(Distinct(picks, "lane")), FromInt(Max1(Len(picks))))
    IN  FAdd(FMul(half, cd), FMul(half, ld))

\* stats_inference.universalism_bonus
universalism_bonus(participant_bundles) == DiversityOf(participant_bundles)

\* aggregate_rift_rewind.add_universalism_diversity: the bonus added to every game
add_universalism_diversity(matches) == DiversityOf(matches)

PickLists ==
    UNION {[1..n -> [champ : Champions, lane : Lanes]] : n \in 1..MaxPicks}

InitDiversity ==
    /\ Quiescent
    /\ \E p \in PickLists : calc = [fn |-> "diversity", picks |-> p, by |-> "none", bonus |-> FZero]

UniversalismBonus ==
    /\ calc.fn = "diversity"
    /\ calc.by = "none"
    /\ calc' = [calc EXCEPT !.by = "universalism_bonus", !.bonus = universalism_bonus(calc.picks)]
    /\ UNCHANGED orch

AddUniversalismDiversity ==
    /\ calc.fn = "diversity"
    /\ calc.by = "none"
    /\ calc' = [calc EXCEPT !.by = "add_universalism_diversity",
                            !.bonus = add_universalism_diversity(calc.picks)]
    /\ UNCHANGED orch

NextDiversity == UniversalismBonus \/ AddUniversalismDiversity

SpecDiversity == InitDiversity /\ [][NextDiversity]_vars

\* C17: for a non-empty cohort the diversity bonus is 0.0 when every game uses
\* the same champion and the same role, and 1.0 when every game uses a distinct
\* champion and a distinct role (a cohort of one game falls under the second
\* case only).
C17_DiversityBonusEndpoints ==
    (calc.fn = "diversity" /\ calc.by # "none")
    => LET n == Len(calc.picks)
       IN  /\ (n >= 2 /\ Distinct(calc.picks, "champ") = 1 /\ Distinct(calc.picks, "lane") = 1)
              => calc.bonus = FZero
           /\ (Distinct(calc.picks, "champ") = n /\ Distinct(calc.picks, "lane") = n)
              => calc.bonus = FOne

----------------------------------------------------------------------------
(* advanced_analytics.calculate_trends (trend_direction and change_pct of    *)
(* one metric) and aggregate_rift_rewind.compare_chapter_stats (pct)         *)

\* longest metric series (number of chapters with data)
MaxSeries == 4

\* per-chapter values of a metric
SeriesValues == {-2, 0, 1, 2, 4, 30, 31}

\* -a
FNeg(a) == [m |-> -a.m, e |-> a.e]

\* abs(a)
FAbs(a) == [m |-> Abs(a.m), e |-> a.e]

\* a < b
FLess(a, b) ==
    LET e == Min(a.e, b.e)
    IN  a.m * Pow2(a.e - e) < b.m * Pow2(b.e - e)

\* the literals 100 and 5
F100 == FromInt(100)

F5 == FromInt(5)

\* the literal 0.01
FHundredth == FDiv(FOne, F100)

\* max(0.01, v)
MaxHundredth(v) == IF FLess(FHundredth, v) THEN v ELSE FHundredth

\* sum(x) for x = list(range(n))
SumRange(n) == (n * (n - 1)) \div 2

\* slope = numerator / denominator of trend_direction (zero when denominator is)
Slope(values) ==
    LET n == Len(values)
        x_mean == FDiv(FromInt(SumRange(n)), FromInt(n))
        y_mean == FDiv(FSum(values), FromInt(n))
        numerator == FSum([i \in 1..n |-> FMul(FSub(FromInt(i - 1), x_mean), FSub(values[i], y_mean))])
        denominator == FSum([i \in 1..n |-> FMul(FSub(FromInt(i - 1), x_mean), FSub(FromInt(i - 1), x_mean))])
    IN  IF denominator = FZero THEN FZero ELSE FDiv(numerator, denominator)

\* pct_change of trend_direction
TrendPctChange(values) ==
    IF values[1] # FZero
    THEN FMul(FDiv(FSub(values[Len(values)], values[1]), FAbs(values[1])), F100)
    ELSE FZero

\* calculate_trends.trend_direction
trend_direction(values) ==
    IF Len(values) < 2 THEN "stable"
    ELSE IF FSum([i \in 1..Len(values) |->
                    FMul(FSub(FromInt(i - 1), FDiv(FromInt(SumRange(Len(values))), FromInt(Len(values)))),
                         FSub(FromInt(i - 1), FDiv(FromInt(SumRange(Len(values))), FromInt(Len(values)))))])
            = FZero
    THEN "stable"
    ELSE IF FLess(FAbs(TrendPctChange(values)), F5) THEN "stable"
    ELSE IF FLess(FZero, Slope(values)) THEN "improving"
    ELSE "declining"

\* calculate_trends: "change_pct" of a metric
change_pct(values) ==
    IF values[1] # FZero
    THEN FMul(FDiv(FSub(values[Len(values)], values[1]), MaxHundredth(values[1])), F100)
    ELSE FZero

\* compare_chapter_stats.pct(a, d)
pct(a, d) ==
    IF a # FZero THEN FMul(FDiv(d, a), F100)
    ELSE IF FLess(FZero, d) THEN F100
    ELSE IF FLess(d, FZero) THEN FNeg(F100)
    ELSE FZero

SeriesSet == UNION {[1..n -> {FromInt(v) : v \in SeriesValues}] : n \in 2..MaxSeries}

InitTrend ==
    /\ Quiescent
    /\ \E s \in SeriesSet :
          calc = [fn |-> "trend", values |-> s, by |-> "none", direction |-> "",
                  change_pct |-> FZero, slope |-> FZero]

\* calculate_trends for one metric
CalculateTrends ==
    /\ calc.fn = "trend"
    /\ calc.by = "none"
    /\ calc' = [calc EXCEPT !.by = "calculate_trends",
                            !.direction = trend_direction(calc.values),
                            !.change_pct = change_pct(calc.values),
                            !.slope = Slope(calc.values)]
    /\ UNCHANGED orch

\* compare_chapter_stats for one key, prev and curr the first and last chapter
CompareChapterStats ==
    /\ calc.fn = "trend"
    /\ calc.by = "none"
    /\ calc' = [calc EXCEPT !.by = "compare_chapter_stats",
                            !.change_pct = pct(calc.values[1],
                                               FSub(calc.values[Len(calc.values)], calc.values[1]))]
    /\ UNCHANGED orch

NextTrend == CalculateTrends \/ CompareChapterStats

SpecTrend == InitTrend /\ [][NextTrend]_vars

\* change_pct as specified: (last - first) / |first| * 100, +-100 with the sign
\* of last when first is 0 and last is not, 0 when both are 0
SpecChangePct(first, last) ==
    IF first # FZero THEN FMul(FDiv(FSub(last, first), FAbs(first)), F100)
    ELSE IF FLess(FZero, last) THEN F100
    ELSE IF FLess(last, FZero) THEN FNeg(F100)
    ELSE FZero

\* C18: for a series of at least 2 values the direction is stable exactly when
\* |change_pct| < 5, change_pct as specified; otherwise it is improving when the
\* least-squares slope is positive and declining when it is negative.
C18_TrendDirection ==
    (calc.fn = "trend" /\ calc.by = "calculate_trends")
    => LET c == SpecChangePct(calc.values[1], calc.values[Len(calc.values)])
       IN  /\ calc.direction = "stable" <=> FLess(FAbs(c), F5)
           /\ (~FLess(FAbs(c), F5) /\ FLess(FZero, calc.slope)) => calc.direction = "improving"
           /\ (~FLess(FAbs(c), F5) /\ FLess(calc.slope, FZero)) => calc.direction = "declining"

\* C19: the reported change_pct of a metric series equals the specified
\* change_pct of its first and last value.
C19_ChangePct ==
    (calc.fn = "trend" /\ calc.by # "none")
    => calc.change_pct = SpecChangePct(calc.values[1], calc.values[Len(calc.values)])

----------------------------------------------------------------------------
(* Narrative generation with fallback: bedrock_lore.generate_quarter_lore,   *)
(* bedrock_lore.generate_quarter_reflection,                                 *)
(* advanced_analytics.generate_insights and the lore step of                 *)
(* aggregate_rift_rewind.main                                                *)

\* region arcs a chapter can be set in
RegionArcs == {"Demacia", "Noxus", "Ionia", "Piltover", "Freljord"}

\* what the external generator does with a request:
\*   raises           the call raises
\*   empty            the response body is empty, or is not JSON
\*   malformed        the response is JSON that lacks the text field
\*   text_not_string  the text field is there and is not a string
\*   empty_text       the text is the empty string
\*   plain_text       the text is prose that holds no JSON
\*   wrong_structure  the text is JSON of another structure than asked for:
\*                    an array whose items are not insights, an object whose
\*                    "lore" is not a string
\*   valid            the text is what was asked for
GeneratorOutcomes ==
    {"raises", "empty", "malformed", "text_not_string", "empty_text",
     "plain_text", "wrong_structure", "valid"}

\* f"{quarter}: Your journey through {region_arc} has shaped your path. ..."
FallbackLore(quarter, region_arc) ==
    [kind |-> "fallback_lore", quarter |-> quarter, region_arc |-> region_arc]

\* "Continue improving your macro play and map awareness."
FallbackReflection == [kind |-> "fallback_reflection"]

\* _generate_fallback_insights(quarters_data, trends, champion_analysis)
FallbackInsights == [kind |-> "fallback_insights"]

\* the generator's text, stripped, or the structure parsed from it
Generated == [kind |-> "generated"]

\* the empty string, the empty list
Empty == [kind |-> "empty"]

\* None
Missing_ == [kind |-> "missing"]

\* parsed JSON of the wrong structure, passed on as it is
Unchecked == [kind |-> "unchecked"]

Returned(v) == [outcome |-> "returned", value |-> v]

Raised == [outcome |-> "raised", value |-> Missing_]

\* try: ... return response_body['outputs'][0]['text'].strip()
\* except Exception: return <fallback>
BedrockText(gen, fallback) ==
    IF gen \in {"raises", "empty", "malformed", "text_not_string"} THEN Returned(fallback)
    ELSE IF gen = "empty_text" THEN Returned(Empty)
    ELSE Returned(Generated)

generate_quarter_lore(quarter, region_arc, gen) ==
    BedrockText(gen, FallbackLore(quarter, region_arc))

generate_quarter_reflection(gen) == BedrockText(gen, FallbackReflection)

\* insights = []; try: ai_response = ...['content'][0]['text'];
\* if a '[' ... ']' span is found: insights = json.loads(span)
\* except Exception: insights = _generate_fallback_insights(...)
generate_insights(gen) ==
    IF gen \in {"raises", "empty", "malformed", "text_not_string"} THEN Returned(FallbackInsights)
    ELSE IF gen \in {"empty_text", "plain_text"} THEN Returned(Empty)
    ELSE IF gen = "wrong_structure" THEN Returned(Unchecked)
    ELSE Returned(Generated)

\* try: if r.ok: return (r.json().get("response") or "").strip()
\* except Exception: return None
call_ollama(gen) ==
    IF gen \in {"raises", "empty", "text_not_string"} THEN "None"
    ELSE IF gen \in {"malformed", "empty_text"} THEN ""
    ELSE gen

\* lore_text = None; if raw: maybe = extract_json_from_text(raw);
\* if maybe and isinstance(maybe, dict): lore_text = maybe.get("lore");
\* ... lore_text[:300] if lore_text ...; the chapter gets "lore": lore_text
main_lore(gen) ==
    LET raw == call_ollama(gen)
    IN  IF raw \in {"None", ""} THEN Returned(Missing_)
        ELSE IF raw = "plain_text" THEN Returned(Missing_)
        ELSE IF raw = "wrong_structure" THEN Raised
        ELSE Returned(Generated)

InitNarrative ==
    /\ Quiescent
    /\ \E q \in QLabels, r \in RegionArcs, g \in GeneratorOutcomes :
          calc = [fn |-> "narrative", quarter |-> q, region_arc |-> r, gen |-> g,
                  by |-> "none", result |-> Returned(Missing_)]

NarrativeCall(by, result) ==
    /\ calc.fn = "narrative"
    /\ calc.by = "none"
    /\ calc' = [calc EXCEPT !.by = by, !.result = result]
    /\ UNCHANGED orch

GenerateQuarterLore ==
    NarrativeCall("generate_quarter_lore",
                  generate_quarter_lore(calc.quarter, calc.region_arc, calc.gen))

GenerateQuarterReflection ==
    NarrativeCall("generate_quarter_reflection", generate_quarter_reflection(calc.gen))

GenerateInsights == NarrativeCall("generate_insights", generate_insights(calc.gen))

MainLore == NarrativeCall("main", main_lore(calc.gen))

NextNarrative ==
    GenerateQuarterLore \/ GenerateQuarterReflection \/ GenerateInsights \/ MainLore

SpecNarrative == InitNarrative /\ [][NextNarrative]_vars

\* the generator outcomes that are not the output the operation asked for:
\* free text is what lore and reflection ask for, a JSON array of insights is
\* what insights asks for, a JSON object with a "lore" string what main asks for
GeneratorFailed(by, gen) ==
    IF by \in {"generate_quarter_lore", "generate_quarter_reflection"}
    THEN gen \in {"raises", "empty", "malformed", "text_not_string", "empty_text"}
    ELSE gen # "valid"

\* the deterministic fallback of each operation
FallbackOf(by, quarter, region_arc) ==
    IF by = "generate_insights" THEN FallbackInsights
    ELSE IF by = "generate_quarter_reflection" THEN FallbackReflection
    ELSE FallbackLore(quarter, region_arc)

\* C20: whatever the generator does (raises, returns an empty response, or
\* returns output that is not the expected structure), the calling operation
\* does not raise and returns its deterministic fallback, never an empty or
\* missing result: the templated string for lore and reflection, the
\* rule-based list for insights.
C20_GeneratorFailureFallsBack ==
    (calc.fn = "narrative" /\ calc.by # "none" /\ GeneratorFailed(calc.by, calc.gen))
    => /\ calc.result.outcome = "returned"
       /\ calc.result.value = FallbackOf(calc.by, calc.quarter, calc.region_arc)

----------------------------------------------------------------------------
(* Region arc selection: aggregate_rift_rewind.choose_region_arc and         *)
(* generate_journey_package.choose_region_arc                                *)

\* most entries of a value vector
MaxDims == 2

\* value dimensions (keys of REGION_ARC_MAP) the vectors range over
ValueNames == {"Power", "Security", "Universalism"}

\* the values a dimension takes
ValueScores == {0, 1, 3}

\* REGION_ARC_MAP[value_name]; every ValueNames member is a key of the map, so
\* neither default ("Arc of ...", "Runeterra") is taken
map_value_to_region(value_name) ==
    CASE value_name = "Power" -> "Noxus"
      [] value_name = "Security" -> "Shurima"
      [] value_name = "Universalism" -> "Runeterra"

\* a dict is the sequence of its items in insertion order
DictKeys(d) == {d[i].k : i \in 1..Len(d)}

\* d.get(k, 0.0)
DictGet(d, k) == IF k \in DictKeys(d) THEN d[CHOOSE i \in 1..Len(d) : d[i].k = k].v ELSE 0

\* None for prev_values
NoValues == <<[k |-> "None", v |-> 0]>>

\* (prev_values or {})
OrEmpty(prev) == IF prev = NoValues THEN <<>> ELSE prev

\* max(items, key=...)[0]: the first item, in iteration order, whose key is
\* maximal; items are records [k, v] and v is the key
FirstMax(items) ==
    items[CHOOSE i \in 1..Len(items) :
              /\ \A j \in 1..Len(items) : items[j].v <= items[i].v
              /\ \A j \in 1..(i - 1) : items[j].v < items[i].v].k

\* min(items, key=...)[0]
FirstMin(items) ==
    items[CHOOSE i \in 1..Len(items) :
              /\ \A j \in 1..Len(items) : items[j].v >= items[i].v
              /\ \A j \in 1..(i - 1) : items[j].v > items[i].v].k

\* the iteration order of a set of strings follows the strings' hashes, which
\* differ from one interpreter process to the next: hashOrder is the order of
\* this process, and a set is iterated as the members of hashOrder that are in it
SetIteration(hashOrder, S) == SelectSeq(hashOrder, LAMBDA k : k \in S)

HashOrders ==
    {o \in [1..Cardinality(ValueNames) -> ValueNames] :
        \A i, j \in 1..Cardinality(ValueNames) : i # j => o[i] # o[j]}

\* deltas = {k: curr.get(k, 0.0) - prev.get(k, 0.0) for k in set(curr).union(prev)}
Deltas(curr, prev, hashOrder) ==
    LET ks == SetIteration(hashOrder, DictKeys(curr) \cup DictKeys(prev))
    IN  [i \in 1..Len(ks) |-> [k |-> ks[i], v |-> DictGet(curr, ks[i]) - DictGet(prev, ks[i])]]

AbsItems(items) == [i \in 1..Len(items) |-> [k |-> items[i].k, v |-> Abs(items[i].v)]]

\* aggregate_rift_rewind.choose_region_arc
choose_region_arc(chapter_idx, curr_values, prev_values, hashOrder) ==
    LET deltas == Deltas(curr_values, OrEmpty(prev_values), hashOrder)
    IN  IF curr_values = <<>> THEN "None"
        ELSE IF chapter_idx = 1 THEN map_value_to_region(FirstMax(curr_values))
        ELSE IF chapter_idx = 2 THEN map_value_to_region(FirstMax(AbsItems(deltas)))
        ELSE IF chapter_idx = 3 THEN map_value_to_region(FirstMin(deltas))
        ELSE map_value_to_region(FirstMax(curr_values))

\* get_top_value_excluding_universalism: the sort is stable, so the first
\* non-Universalism item of the sorted list is the first maximum of them
get_top_value_excluding_universalism(curr_values) ==
    LET others == SelectSeq(curr_values, LAMBDA it : it.k # "Universalism")
    IN  IF others # <<>> THEN FirstMax(others) ELSE FirstMax(curr_values)

\* generate_journey_package.choose_region_arc
package_choose_region_arc(quarter_num, curr_values, prev_values, hashOrder) ==
    LET deltas == Deltas(curr_values, OrEmpty(prev_values), hashOrder)
        deltas_no_univ == SelectSeq(deltas, LAMBDA it : it.k # "Universalism")
        neg == SelectSeq(deltas, LAMBDA it : it.v < 0)
        top == map_value_to_region(get_top_value_excluding_universalism(curr_values))
    IN  IF curr_values = <<>> THEN "Runeterra"
        ELSE IF quarter_num = 1 THEN top
        ELSE IF OrEmpty(prev_values) # <<>> /\ quarter_num = 2
             THEN IF deltas_no_univ # <<>>
                  THEN map_value_to_region(FirstMax(AbsItems(deltas_no_univ)))
                  ELSE map_value_to_region(FirstMax(AbsItems(deltas)))
        ELSE IF OrEmpty(prev_values) # <<>> /\ quarter_num = 3 /\ neg # <<>>
             THEN map_value_to_region(FirstMin(neg))
        ELSE top

\* value vectors: up to MaxDims items with distinct keys, in any insertion order
ValueVectors ==
    UNION {{d \in [1..n -> [k : ValueNames, v : ValueScores]] :
                \A i, j \in 1..n : i # j => d[i].k # d[j].k} : n \in 0..MaxDims}

InitArc ==
    /\ Quiescent
    /\ \E idx \in 1..4, curr \in ValueVectors, prev \in ValueVectors \cup {NoValues},
          o \in HashOrders :
          calc = [fn |-> "arc", chapter_idx |-> idx, curr_values |-> curr,
                  prev_values |-> prev, hashOrder |-> o, by |-> "none", out |-> "None"]

ChooseRegionArc ==
    /\ calc.fn = "arc"
    /\ calc.by = "none"
    /\ calc' = [calc EXCEPT !.by = "aggregate_rift_rewind",
                            !.out = choose_region_arc(calc.chapter_idx, calc.curr_values,
                                                      calc.prev_values, calc.hashOrder)]
    /\ UNCHANGED orch

PackageChooseRegionArc ==
    /\ calc.fn = "arc"
    /\ calc.by = "none"
    /\ calc' = [calc EXCEPT !.by = "generate_journey_package",
                            !.out = package_choose_region_arc(calc.chapter_idx, calc.curr_values,
                                                              calc.prev_values, calc.hashOrder)]
    /\ UNCHANGED orch

NextArc == ChooseRegionArc \/ PackageChooseRegionArc

SpecArc == InitArc /\ [][NextArc]_vars

\* the dimensions of both vectors, and each one's delta, a missing one counting 0
ArcDims(c) == DictKeys(c.curr_values) \cup DictKeys(OrEmpty(c.prev_values))

ArcDelta(c, k) == DictGet(c.curr_values, k) - DictGet(OrEmpty(c.prev_values), k)

\* the selector ran on a non-empty current vector and a previous vector
ArcSelected(c, idx) ==
    /\ c.fn = "arc"
    /\ c.by # "none"
    /\ c.chapter_idx = idx
    /\ c.curr_values # <<>>
    /\ c.prev_values # NoValues

\* C21: at chapter 3 the selector picks a dimension whose delta is the most
\* negative one when some delta is negative, and otherwise a dimension whose
\* current value is the maximum.
C21_Chapter3MostNegativeOrDominant ==
    ArcSelected(calc, 3) =>
        IF \E k \in ArcDims(calc) : ArcDelta(calc, k) < 0
        THEN \E k \in ArcDims(calc) :
                /\ calc.out = map_value_to_region(k)
                /\ \A other \in ArcDims(calc) : ArcDelta(calc, k) <= ArcDelta(calc, other)
        ELSE \E k \in DictKeys(calc.curr_values) :
                /\ calc.out = map_value_to_region(k)
                /\ \A other \in DictKeys(calc.curr_values) :
                       DictGet(calc.curr_values, other) <= DictGet(calc.curr_values, k)

\* the selector of calc.by applied to calc's vectors in a process whose hash
\* order is hashOrder
ArcUnder(c, hashOrder) ==
    IF c.by = "aggregate_rift_rewind"
    THEN choose_region_arc(c.chapter_idx, c.curr_values, c.prev_values, hashOrder)
    ELSE package_choose_region_arc(c.chapter_idx, c.curr_values, c.prev_values, hashOrder)

\* C22: at chapter 2 the selector picks a dimension whose delta has the maximum
\* absolute value over all dimensions of the two vectors, and the same two
\* vectors select the same dimension in every run, ties included.
C22_Chapter2MaxAbsDeltaDeterministic ==
    ArcSelected(calc, 2) =>
        /\ \E k \in ArcDims(calc) :
              /\ calc.out = map_value_to_region(k)
              /\ \A other \in ArcDims(calc) : Abs(ArcDelta(calc, other)) <= Abs(ArcDelta(calc, k))
        /\ \A o \in HashOrders : ArcUnder(calc, o) = calc.out

----------------------------------------------------------------------------
(* Job creation: api.create_job                                              *)

\* a field the request body does not carry (body.get gives None)
Absent == "<absent>"

\* a field the JSON body carries as a non-empty value that is no string, such
\* as the number 123
NotAString == "<number>"

BodyPlatforms == {Absent, "", "euw1", "EUW1", "kr", NotAString}

BodyRiotIds == {Absent, "", "Player", "Player#1234", "#", NotAString}

\* str.lower() on the platforms above
Lower(s) == IF s = "EUW1" THEN "euw1" ELSE s

\* body.get(field) or ""
OrEmptyString(v) == IF v = Absent THEN "" ELSE v

\* "#" in riot_id, for the riot ids above
HasHash(riot_id) == riot_id \in {"Player#1234", "#"}

AllPending == [q \in QLabels |-> "pending"]

AllReady == [q \in QLabels |-> "ready"]

\* the item create_job puts; uuid4 gives an id no stored item has
NewItem(platform, riot_id) ==
    [jobId |-> "new", platform |-> platform, riotId |-> riot_id,
     status |-> "queued", quarters |-> AllPending]

\* a job an earlier request stored for Player#1234 on euw1
StoredItem(quarters) ==
    [jobId |-> "old", platform |-> "euw1", riotId |-> "Player#1234",
     status |-> "queued", quarters |-> quarters]

\* the job table before the request: empty, a job in progress, a completed job
Tables == {{}, {StoredItem([AllReady EXCEPT !["Q4"] = "fetched"])}, {StoredItem(AllReady)}}

\* TABLE.scan(FilterExpression="riotId = :rid AND platform = :plat")
Scan(table, riot_id, platform) ==
    {it \in table : it.riotId = riot_id /\ it.platform = platform}

\* all(quarters.get(q) == "ready" for q in ["Q1", "Q2", "Q3", "Q4"])
Completed(it) == \A q \in QLabels : it.quarters[q] = "ready"

NoResponse == [statusCode |-> 0, queued |-> FALSE, cached |-> FALSE, jobId |-> ""]

Resp(code, jobId, queued, cached) ==
    [statusCode |-> code, queued |-> queued, cached |-> cached, jobId |-> jobId]

\* create_job(body) on a table, with the cache scan failing or not and
\* FETCH_QUEUE_URL set (local_mode false) or not: what it returns, puts and sends
create_job(body, table, scanFails, local_mode) ==
    LET platform == Lower(OrEmptyString(body.platform))
        riot_id == OrEmptyString(body.riotId)
        hits == IF scanFails THEN {} ELSE {it \in Scan(table, riot_id, platform) : Completed(it)}
        item == NewItem(platform, riot_id)
    IN  IF body.platform = NotAString \/ riot_id = NotAString
        THEN [raised |-> TRUE, resp |-> NoResponse, puts |-> <<>>, sends |-> <<>>]
        ELSE IF ~HasHash(riot_id) \/ platform = ""
        THEN [raised |-> FALSE, resp |-> Resp(400, "", FALSE, FALSE), puts |-> <<>>, sends |-> <<>>]
        ELSE IF ~body.bypassCache /\ hits # {}
        THEN [raised |-> FALSE, resp |-> Resp(200, (CHOOSE it \in hits : TRUE).jobId, FALSE, TRUE),
              puts |-> <<>>, sends |-> <<>>]
        ELSE IF local_mode
        THEN [raised |-> FALSE, resp |-> Resp(200, item.jobId, FALSE, FALSE),
              puts |-> <<item>>, sends |-> <<>>]
        ELSE [raised |-> FALSE, resp |-> Resp(200, item.jobId, TRUE, FALSE),
              puts |-> <<item>>,
              sends |-> <<[jobId |-> item.jobId, platform |-> platform, riotId |-> riot_id,
                           quarter |-> quarter_order[1]]>>]

InitCreateJob ==
    /\ Quiescent
    /\ \E p \in BodyPlatforms, r \in BodyRiotIds, b \in BOOLEAN, t \in Tables,
          f \in BOOLEAN, l \in BOOLEAN :
          calc = [fn |-> "create_job",
                  body |-> [platform |-> p, riotId |-> r, bypassCache |-> b],
                  table |-> t, scanFails |-> f, local_mode |-> l,
                  done |-> FALSE,
                  out |-> [raised |-> FALSE, resp |-> NoResponse, puts |-> <<>>, sends |-> <<>>]]

CreateJob ==
    /\ calc.fn = "create_job"
    /\ ~calc.done
    /\ calc' = [calc EXCEPT !.done = TRUE,
                            !.out = create_job(calc.body, calc.table, calc.scanFails, calc.local_mode),
                            !.table = calc.table \cup Range(create_job(calc.body, calc.table,
                                                             calc.scanFails, calc.local_mode).puts)]
    /\ UNCHANGED orch

NextCreateJob == CreateJob

SpecCreateJob == InitCreateJob /\ [][NextCreateJob]_vars

\* the request carries a platform and a riotId with a '#'
WellFormed(body) ==
    /\ body.platform \notin {Absent, "", NotAString}
    /\ body.riotId \in {"Player#1234", "#"}

\* a completed job of this player is stored
CachedJob(c) ==
    \E it \in c.table : /\ it.jobId # "new"
                        /\ it.riotId = c.body.riotId
                        /\ it.platform = Lower(c.body.platform)
                        /\ Completed(it)

\* C23: an accepted request (platform, riotId with '#', no cached completed
\* job) writes exactly one new job record, queued with Q1..Q4 pending, and
\* enqueues at most one work item, for Q1; a request without a platform or
\* without a valid riotId is answered 400 and writes and enqueues nothing.
C23_CreateJobWritesOneQueuedJob ==
    (calc.fn = "create_job" /\ calc.done) =>
        /\ (WellFormed(calc.body) /\ ~CachedJob(calc)) =>
              /\ ~calc.out.raised
              /\ Len(calc.out.puts) = 1
              /\ calc.out.puts[1].jobId \notin {it.jobId : it \in calc.table \ Range(calc.out.puts)}
              /\ calc.out.puts[1].status = "queued"
              /\ calc.out.puts[1].quarters = AllPending
              /\ Len(calc.out.sends) <= 1
              /\ \A i \in 1..Len(calc.out.sends) : calc.out.sends[i].quarter = "Q1"
        /\ ~WellFormed(calc.body) =>
              /\ ~calc.out.raised
              /\ calc.out.resp.statusCode = 400
              /\ calc.out.puts = <<>>
              /\ calc.out.sends = <<>>

----------------------------------------------------------------------------
(* Properties of the orchestrator, continued *)

\* C24: when process_fetch reads the job store for a work item whose job record
\* does not exist, that read is its only step: it returns, having made no
\* upstream call, and the job record, the object store and both queues'
\* contents are as before (the item itself is acknowledged).
C24_MissingJobReturnsWithoutEffect ==
    [][\A w \in Workers :
          (StepFrom(w, "pf_get") /\ ~job.exists)
          => (/\ run'[w] = IdleRun
              /\ ~run[w].puuidCalled
              /\ run[w].fetchCalls = {}
              /\ job' = job
              /\ index' = index
              /\ s3Puts' = s3Puts
              /\ processQueue' = processQueue
              /\ fetchQueue' = fetchQueue \ {run[w].msg})]_vars

\* two work items for a job that does not exist were handled: nothing is left
\* in the queue and nothing runs
C24_Witness ==
    /\ ~job.exists
    /\ delivered = 2
    /\ fetchQueue = {}
    /\ \A w \in Workers : run[w].pc = "idle"


\* C25: a chapter that is fetched or ready in the job record is never set back
\* to fetching or pending, whatever work items are delivered.
C25_StatusNeverMovesBackwards ==
    [][\A q \in QLabels :
          job.quarters[q] \in Done => job'.quarters[q] \notin {"pending", "fetching"}]_vars

\* C26: a job-store update of a process_fetch run for chapter j leaves the
\* stored status of every other chapter as it is.
C26_UpdateTouchesOwnChapterOnly ==
    [][\A w \in Workers :
          (StepFrom(w, "mark_fetching") \/ StepFrom(w, "mark_error") \/ StepFrom(w, "mark_fetched"))
          => \A k \in QLabels \ {run[w].msg.quarter} : job'.quarters[k] = job.quarters[k]]_vars

\* C27: a chapter whose status in the job record is fetched has a persisted
\* index artifact.
C27_FetchedHasIndex ==
    \A q \in QLabels : job.quarters[q] = "fetched" => index[q] # NoIndex

\* a run wrote the chapter's index and then set the chapter to fetched
C27_Witness ==
    \E q \in QLabels :
       /\ job.quarters[q] = "fetched"
       /\ index[q] # NoIndex
       /\ index[q].count > 0

----------------------------------------------------------------------------
(* Properties of the partitioners, continued *)

\* C28: divide_matches_into_quarters with cap K on n identifiers: when
\* n <= 4*K the four quarters, laid end to end, are the input list (disjoint,
\* in list order, nothing lost) and each has at most K identifiers; when
\* n > 4*K each quarter has exactly K.
C28_DivisionLosesNoGameUnlessCapped ==
    (calc.fn = "partition" /\ calc.by = "divide_matches_into_quarters")
    => LET n == Len(calc.games)
       IN  /\ Len(calc.chapters) = 4
           /\ n <= 4 * calc.K
              => /\ Flatten(calc.chapters) = calc.games
                 /\ \A i \in 1..4 : Len(calc.chapters[i]) <= calc.K
           /\ n > 4 * calc.K
              => \A i \in 1..4 : Len(calc.chapters[i]) = calc.K

----------------------------------------------------------------------------
(* Properties of the trend analysis, continued *)

\* C29: for a metric series with a positive first value, the direction
\* calculate_trends reports agrees with the sign of the change_pct it reports:
\* improving implies change_pct > 0 and declining implies change_pct < 0.
C29_DirectionAgreesWithChange ==
    (calc.fn = "trend" /\ calc.by = "calculate_trends" /\ FLess(FZero, calc.values[1]))
    => /\ calc.direction = "improving" => FLess(FZero, calc.change_pct)
       /\ calc.direction = "declining" => FLess(calc.change_pct, FZero)

----------------------------------------------------------------------------
(* Progress of a job whose upstream calls all succeed                        *)

\* counted deliveries of the progress model: one per chapter and one duplicate
LiveDeliveries == 5

\* identifiers the provider lists in the progress model: one per chapter
LiveMatches == 4

\* a job whose division is stored, every chapter with at least one identifier
DividedJob(game) ==
    [NewJob(game) EXCEPT !.quarterMatches =
        divide_matches_into_quarters(AllIds(LiveMatches), MAX_MATCHES_PER_QUARTER)]

InitLive ==
    /\ calc = NoCalc
    /\ job \in {DividedJob(g) : g \in GameNames}
    /\ index = [q \in QLabels |-> NoIndex]
    /\ s3Puts = <<>>
    /\ processQueue = [q \in QLabels |-> 0]
    /\ fetchQueue = {}
    /\ run = [w \in Workers |-> IdleRun]
    /\ delivered = 0
    /\ budget = LiveDeliveries

\* the item was deferred: it is unacknowledged and no invocation holds it
Deferred(m) == m \in fetchQueue /\ \A w \in Workers : run[w].msg # m

\* the queue's visibility timeout expires and a deferred item is delivered
\* again; these redeliveries repeat for as long as the item is deferred and
\* are not counted
Redeliver(w, m) ==
    /\ FirstIdle(w)
    /\ Deferred(m)
    /\ run' = [run EXCEPT ![w] = [IdleRun EXCEPT !.pc = "handler", !.msg = m]]
    /\ UNCHANGED <<job, index, s3Puts, processQueue, fetchQueue, delivered, budget, calc>>

\* a step of an invocation when get_puuid and every fetch_match return data
LiveStep(w) ==
    \/ HandlerDefer(w)
    \/ HandlerProcess(w)
    \/ PF_GetItem(w)
    \/ PF_MarkFetching(w) /\ run'[w].pc # "mark_error"
    \/ PF_CacheCheck(w)
    \/ PF_List(w)
    \/ \E mid \in run[w].pending : PF_Fetch(w, mid, TRUE)
    \/ PF_KeyWrite(w)
    \/ PF_IndexRead(w)
    \/ PF_IndexWrite(w)
    \/ PF_MarkFetched(w)

NextLive ==
    \/ \E w \in Workers, q \in QLabels : Deliver(w, QuarterMsg(q, FALSE))
    \/ \E w \in Workers, m \in fetchQueue : Redeliver(w, m)
    \/ \E w \in Workers : LiveStep(w)

\* every invocation runs to its end, and each deferred item is redelivered
\* (an item that keeps being deferred is delivered again and again, whatever
\* the other items do)
SpecLive ==
    /\ InitLive
    /\ [][NextLive]_vars
    /\ \A w \in Workers : WF_vars(LiveStep(w))
    /\ \A q \in QLabels : SF_vars(\E w \in Workers : Redeliver(w, QuarterMsg(q, FALSE)))

\* the chapter's work item has been delivered: it is unacknowledged, or a run
\* for it has written the chapter's status
WasDelivered(q) == QuarterMsg(q, FALSE) \in fetchQueue \/ job.quarters[q] # "pending"

\* C30: if every upstream call succeeds, every chapter has an assigned
\* identifier, every chapter's work item is delivered at least once and a
\* deferred item is redelivered, then every chapter eventually is fetched and
\* from then on stays fetched or ready.
C30_EveryChapterEventuallyFetched ==
    (\A q \in QLabels : <>WasDelivered(q))
    => (\A q \in QLabels : <>[](job.quarters[q] \in Done))

====
